---- MODULE Spec2Model ----
(***************************************************************************)
(* Model of vscode-ext-dl: the batch loop of index.js                      *)
(* (_setupBrowserAndBegin) and the per-extension download logic of         *)
(* download.js (dlExt, SinglePlatform, MultiPlatform, _clickAndDl).        *)
(*                                                                         *)
(* Strings are sequences of one-character strings, so that toLowerCase,    *)
(* String.includes (substring) and Array.includes (exact membership) are   *)
(* computed as the code computes them.  The rendered page is the external  *)
(* input: its content is drawn from small sets when the page is loaded.    *)
(* Every awaited collaborator call is one step that either returns or      *)
(* throws.                                                                 *)
(***************************************************************************)
EXTENDS Integers, Sequences, FiniteSets, TLC

\* ------------------------------------------------------------------ bounds
MaxExts == 2        \* number of extensions in the input list
MaxEntries == 2     \* number of Download icons the page can show
MaxPlatforms == 2   \* number of -p platform codes on the command line

\* ----------------------------------------------------------------- strings
sWeb == <<"W", "e", "b">>
sLinux == <<"L", "i", "n", "u", "x", " ", "x", "6", "4">>
sWebUI == <<"W", "e", "b", " ", "U", "I">>
sUniversalCap == <<"U", "n", "i", "v", "e", "r", "s", "a", "l">>
sBothCap == <<"W", "e", "b", ",", "L", "i", "n", "u", "x", " ", "x", "6", "4">>
sMacCap == <<"m", "a", "c", "O", "S">>
sDash == <<"-">>

\* the value of an absent text (null / undefined); no text equals it
undefined == <<"undefined">>

\* the literal searched by _hasSpecifiedPlatforms
UNIVERSAL == <<"u", "n", "i", "v", "e", "r", "s", "a", "l">>

LowerChar(c) ==
    CASE c = "I" -> "i" [] c = "L" -> "l" [] c = "O" -> "o" [] c = "S" -> "s"
      [] c = "U" -> "u" [] c = "W" -> "w" [] OTHER -> c

\* String.prototype.toLowerCase / toLocaleLowerCase
toLowerCase(s) == [i \in 1..Len(s) |-> LowerChar(s[i])]

\* String.prototype.includes: sub occurs in s as a contiguous substring
StrIncludes(s, sub) ==
    \E i \in 0..(Len(s) - Len(sub)) : SubSeq(s, i + 1, i + Len(sub)) = sub

\* Array.prototype.includes: x is an element of arr
ArrIncludes(arr, x) == \E i \in 1..Len(arr) : arr[i] = x

\* platforms.js (the codes the model draws from) and index.js:140
Codes == {"web", "linux-x64"}

PLATFORMS == [c \in Codes |-> IF c = "web" THEN sWeb ELSE sLinux]

parsePlatformArg(codes) == [i \in 1..Len(codes) |-> toLowerCase(PLATFORMS[codes[i]])]

\* every non-empty list of at most n codes
CodeLists(n) == UNION {[1..k -> Codes] : k \in 1..n}

\* ------------------------------------------------------- the rendered page
CapTexts == {undefined, sUniversalCap, sWeb, sLinux, sBothCap, sMacCap}

EntryTexts == {undefined, sWeb, sLinux, sWebUI}

\* a Download icon of the page: followed by a name <span> or not
IconKinds ==
    {[span |-> TRUE, text |-> t] : t \in EntryTexts}
        \cup {[span |-> FALSE, text |-> undefined]}

IconLists(n) == UNION {[1..k -> IconKinds] : k \in 0..n}

\* locator(DL_PLATFORM_NAME_SELECTOR): the spans that follow a Download icon
RECURSIVE NameTexts(_)
NameTexts(ic) ==
    IF ic = <<>> THEN <<>>
    ELSE IF Head(ic).span THEN <<Head(ic).text>> \o NameTexts(Tail(ic))
    ELSE NameTexts(Tail(ic))

\* --------------------------------------------------------- pure functions
\* "at least one chevron" instead of "exactly one"
hasMultiplePlatformsAtLeastOne(count) == count >= 1

hasMultiplePlatforms(count) == count = 1

\* the check without its "universal" branch
hasSpecifiedPlatformsNoUniversal(text, platforms, matchAll) ==
    LET availablePlatforms ==
            IF text = undefined THEN undefined ELSE toLowerCase(text)
    IN  IF availablePlatforms = undefined THEN FALSE
        ELSE IF matchAll
             THEN \A i \in 1..Len(platforms) :
                      StrIncludes(availablePlatforms, platforms[i])
             ELSE \E i \in 1..Len(platforms) :
                      StrIncludes(availablePlatforms, platforms[i])

\* the check that lets a page without capability text pass
hasSpecifiedPlatformsFailOpen(text, platforms, matchAll) ==
    LET availablePlatforms ==
            IF text = undefined THEN undefined ELSE toLowerCase(text)
    IN  IF availablePlatforms = undefined THEN TRUE
        ELSE IF StrIncludes(availablePlatforms, UNIVERSAL) THEN TRUE
        ELSE IF matchAll
             THEN \A i \in 1..Len(platforms) :
                      StrIncludes(availablePlatforms, platforms[i])
             ELSE \E i \in 1..Len(platforms) :
                      StrIncludes(availablePlatforms, platforms[i])

\* the check with every and some exchanged
hasSpecifiedPlatformsSwapped(text, platforms, matchAll) ==
    LET availablePlatforms ==
            IF text = undefined THEN undefined ELSE toLowerCase(text)
    IN  IF availablePlatforms = undefined THEN FALSE
        ELSE IF StrIncludes(availablePlatforms, UNIVERSAL) THEN TRUE
        ELSE IF matchAll
             THEN \E i \in 1..Len(platforms) :
                      StrIncludes(availablePlatforms, platforms[i])
             ELSE \A i \in 1..Len(platforms) :
                      StrIncludes(availablePlatforms, platforms[i])

hasSpecifiedPlatforms(text, platforms, matchAll) ==
    LET availablePlatforms ==
            IF text = undefined THEN undefined ELSE toLowerCase(text)
    IN  IF availablePlatforms = undefined THEN FALSE
        ELSE IF StrIncludes(availablePlatforms, UNIVERSAL) THEN TRUE
        ELSE IF matchAll
             THEN \A i \in 1..Len(platforms) :
                      StrIncludes(availablePlatforms, platforms[i])
             ELSE \E i \in 1..Len(platforms) :
                      StrIncludes(availablePlatforms, platforms[i])

PlatformTask(selectorIdx, extName) ==
    [selectorIdx |-> selectorIdx, extName |-> extName]

\* the filter loop of #computePlatformTaskList from index i (0-based) on
RECURSIVE FilterEntries(_, _, _)
FilterEntries(names, whitelistPlatforms, i) ==
    IF i >= Len(names) THEN <<>>
    ELSE LET platformName ==
                 IF names[i + 1] = undefined THEN undefined
                 ELSE toLowerCase(names[i + 1])
         IN  IF platformName # undefined
                   /\ ArrIncludes(whitelistPlatforms, platformName)
             THEN <<PlatformTask(i, platformName)>>
                      \o FilterEntries(names, whitelistPlatforms, i + 1)
             ELSE FilterEntries(names, whitelistPlatforms, i + 1)

\* a filter that matches by containment instead of by membership
RECURSIVE FilterEntriesSubstr(_, _, _)
FilterEntriesSubstr(names, whitelistPlatforms, i) ==
    IF i >= Len(names) THEN <<>>
    ELSE LET platformName ==
                 IF names[i + 1] = undefined THEN undefined
                 ELSE toLowerCase(names[i + 1])
         IN  IF platformName # undefined
                   /\ \E j \in 1..Len(whitelistPlatforms) :
                          StrIncludes(platformName, whitelistPlatforms[j])
             THEN <<PlatformTask(i, platformName)>>
                      \o FilterEntriesSubstr(names, whitelistPlatforms, i + 1)
             ELSE FilterEntriesSubstr(names, whitelistPlatforms, i + 1)

computePlatformTaskListSubstr(names, whitelistPlatforms) ==
    FilterEntriesSubstr(names, whitelistPlatforms, 0)

\* a filter that compares the entry text as it is, without lower-casing it
RECURSIVE FilterEntriesCased(_, _, _)
FilterEntriesCased(names, whitelistPlatforms, i) ==
    IF i >= Len(names) THEN <<>>
    ELSE LET platformName == names[i + 1]
         IN  IF platformName # undefined
                   /\ ArrIncludes(whitelistPlatforms, platformName)
             THEN <<PlatformTask(i, platformName)>>
                      \o FilterEntriesCased(names, whitelistPlatforms, i + 1)
             ELSE FilterEntriesCased(names, whitelistPlatforms, i + 1)

computePlatformTaskListCased(names, whitelistPlatforms) ==
    FilterEntriesCased(names, whitelistPlatforms, 0)

computePlatformTaskList(names, whitelistPlatforms) ==
    FilterEntries(names, whitelistPlatforms, 0)

\* -------------------------------------------------------------------- state
VARIABLES
    platform,     \* options.platform after _parseCmdArgs
    extIdx,       \* position of the for loop over extensions (1-based)
    batch,        \* "running", "done" (process.exit) or "aborted" (re-thrown)
    extProgress,  \* value of the extensions progress bar
    extErrors,    \* identifiers logged by the top-level catch
    visited,      \* extensions whose page.goto was called, in order
    chevrons,     \* page: number of DL_CHV_SELECTOR elements
    capText,      \* page: text of PLATFORM_CAP_SELECTOR, or undefined
    icons,        \* page: the DL_PLATFORM_SELECTOR elements of the dropdown
    dropdown,     \* page: TRUE iff the dropdown entries are rendered
    pc,           \* position in the code
    mode,         \* "none", "single" or "multi": branch taken by dlExt
    ctx,          \* caller of #ensureDropdownExists: "enum" or "run"
    tasks,        \* #platformTaskList
    taskIdx,      \* position of the for loop of run() (1-based)
    taskProgress, \* value of the platforms progress bar
    dlName,       \* _clickAndDl: dlName
    target,       \* _clickAndDl: -1 for DL_BTN_SELECTOR, else nth index
    clickSt,      \* _clickAndDl: state of the locator.click promise
    evSt,         \* _clickAndDl: state of the waitForEvent promise
    handle,       \* the Download handle: "none", "open" or "deleted"
    outcome,      \* how dlExt ended: "none", "DONE", "SKIPPED", "FAILED"
    err,          \* the call that threw, "none" when nothing was thrown
    dlErrors,     \* labels logged by the catch of _clickAndDl
    events        \* what this extension's run did to its collaborators

batchVars == <<extIdx, batch, extProgress, extErrors>>
pageVars == <<chevrons, capText, icons, dropdown>>
multiVars == <<ctx, tasks, taskIdx, taskProgress>>
cdVars == <<dlName, target, clickSt, evSt, handle>>
endVars == <<outcome, err>>

vars == <<platform, batchVars, visited, pageVars, pc, mode, multiVars, cdVars,
          endVars, dlErrors, events>>

Ev(e, n) == [e |-> e, n |-> n]

Log(e, n) == events' = Append(events, Ev(e, n))

\* a rejected await: the error leaves dlExt
Throw(kind) ==
    /\ pc' = "pkg_end"
    /\ outcome' = "FAILED"
    /\ err' = kind

Init ==
    /\ platform \in {parsePlatformArg(c) : c \in CodeLists(MaxPlatforms)}
    /\ extIdx = 1
    /\ batch = "running"
    /\ extProgress = 0
    /\ extErrors = <<>>
    /\ visited = <<>>
    /\ chevrons = 0
    /\ capText = undefined
    /\ icons = <<>>
    /\ dropdown = FALSE
    /\ pc = "loop"
    /\ mode = "none"
    /\ ctx = "none"
    /\ tasks = <<>>
    /\ taskIdx = 1
    /\ taskProgress = 0
    /\ dlName = sDash
    /\ target = -1
    /\ clickSt = "none"
    /\ evSt = "none"
    /\ handle = "none"
    /\ outcome = "none"
    /\ err = "none"
    /\ dlErrors = <<>>
    /\ events = <<>>

\* --------------------------------------- index.js: _setupBrowserAndBegin
\* for (let ext of extensions): update the bar and call download(...), which
\* starts with fresh locals; the page of the previous extension is not read
\* again before page.goto replaces it, so the model forgets it here
LoopNext ==
    /\ batch = "running"
    /\ pc = "loop"
    /\ extIdx <= MaxExts
    /\ pc' = "nav_goto"
    /\ chevrons' = 0
    /\ capText' = undefined
    /\ icons' = <<>>
    /\ dropdown' = FALSE
    /\ mode' = "none"
    /\ ctx' = "none"
    /\ tasks' = <<>>
    /\ taskIdx' = 1
    /\ taskProgress' = 0
    /\ dlName' = sDash
    /\ target' = -1
    /\ clickSt' = "none"
    /\ evSt' = "none"
    /\ handle' = "none"
    /\ outcome' = "none"
    /\ err' = "none"
    /\ dlErrors' = <<>>
    /\ events' = <<>>
    /\ UNCHANGED <<platform, batchVars, visited>>

\* download(...) resolved: progressBar.increment and the next extension
PkgReturn ==
    /\ batch = "running"
    /\ pc = "pkg_end"
    /\ outcome \in {"DONE", "SKIPPED"}
    /\ extProgress' = extProgress + 1
    /\ extIdx' = extIdx + 1
    /\ pc' = "loop"
    /\ UNCHANGED <<platform, batch, extErrors, visited, pageVars, mode,
                   multiVars, cdVars, endVars, dlErrors, events>>

\* a catch that logs the identifier and lets the loop go on
PkgCatchContinue ==
    /\ batch = "running"
    /\ pc = "pkg_end"
    /\ outcome = "FAILED"
    /\ extErrors' = Append(extErrors, extIdx)
    /\ extProgress' = extProgress + 1
    /\ extIdx' = extIdx + 1
    /\ pc' = "loop"
    /\ UNCHANGED <<platform, batch, visited, pageVars, mode, multiVars,
                   cdVars, endVars, dlErrors, events>>

\* download(...) rejected: .catch logs the identifier and throws again
PkgCatch ==
    /\ batch = "running"
    /\ pc = "pkg_end"
    /\ outcome = "FAILED"
    /\ extErrors' = Append(extErrors, extIdx)
    /\ batch' = "aborted"
    /\ UNCHANGED <<platform, extIdx, extProgress, visited, pageVars, pc, mode,
                   multiVars, cdVars, endVars, dlErrors, events>>

\* after the loop: progressBar.stop, browser.close, process.exit
LoopEnd ==
    /\ batch = "running"
    /\ pc = "loop"
    /\ extIdx > MaxExts
    /\ batch' = "done"
    /\ UNCHANGED <<platform, extIdx, extProgress, extErrors, visited,
                   pageVars, pc, mode, multiVars, cdVars, endVars, dlErrors,
                   events>>

\* ----------------------------------------------------- download.js: dlExt
\* _navigateTo: page.goto loads the page of the extension
NavGoto ==
    /\ pc = "nav_goto"
    /\ visited' = Append(visited, extIdx)
    /\ \/ /\ chevrons' \in 0..2
          /\ capText' \in CapTexts
          /\ icons' \in IconLists(MaxEntries)
          /\ dropdown' = FALSE
          /\ pc' = "nav_wait"
          /\ Log("goto", extIdx)
          /\ UNCHANGED endVars
       \/ /\ Throw("goto")
          /\ Log("goto", extIdx)
          /\ UNCHANGED pageVars
    /\ UNCHANGED <<platform, batchVars, mode, multiVars, cdVars, dlErrors>>

\* _navigateTo: page.waitForSelector(DL_BTN_SELECTOR)
NavWait ==
    /\ pc = "nav_wait"
    /\ \/ /\ pc' = "probe"
          /\ UNCHANGED endVars
       \/ Throw("waitForSelector")
    /\ UNCHANGED <<platform, batchVars, visited, pageVars, mode, multiVars,
                   cdVars, dlErrors, events>>

\* if (await _hasMultiplePlatforms(page))
Probe ==
    /\ pc = "probe"
    /\ \/ /\ hasMultiplePlatforms(chevrons)
          /\ mode' = "multi"
          /\ pc' = "m_init"
          /\ UNCHANGED endVars
       \/ /\ ~hasMultiplePlatforms(chevrons)
          /\ mode' = "single"
          /\ pc' = "s_run"
          /\ UNCHANGED endVars
       \/ /\ Throw("count")
          /\ UNCHANGED mode
    /\ UNCHANGED <<platform, batchVars, visited, pageVars, multiVars, cdVars,
                   dlErrors, events>>

\* SinglePlatform.run with the negation of the check lost
SingleRunInverted ==
    /\ pc = "s_run"
    /\ \/ /\ hasSpecifiedPlatforms(capText, platform, TRUE)
          /\ Log("warn", extIdx)
          /\ pc' = "pkg_end"
          /\ outcome' = "SKIPPED"
          /\ UNCHANGED <<err, dlName, target>>
       \/ /\ ~hasSpecifiedPlatforms(capText, platform, TRUE)
          /\ dlName' = sDash
          /\ target' = -1
          /\ pc' = "cd_start"
          /\ UNCHANGED <<endVars, events>>
       \/ /\ Throw("textContent")
          /\ UNCHANGED <<dlName, target, events>>
    /\ UNCHANGED <<platform, batchVars, visited, pageVars, mode, multiVars,
                   clickSt, evSt, handle, dlErrors>>

\* SinglePlatform.run: the ALL check, then _clickAndDl("-", DL_BTN_SELECTOR)
SingleRun ==
    /\ pc = "s_run"
    /\ \/ /\ ~hasSpecifiedPlatforms(capText, platform, TRUE)
          /\ Log("warn", extIdx)
          /\ pc' = "pkg_end"
          /\ outcome' = "SKIPPED"
          /\ UNCHANGED <<err, dlName, target>>
       \/ /\ hasSpecifiedPlatforms(capText, platform, TRUE)
          /\ dlName' = sDash
          /\ target' = -1
          /\ pc' = "cd_start"
          /\ UNCHANGED <<endVars, events>>
       \/ /\ Throw("textContent")
          /\ UNCHANGED <<dlName, target, events>>
    /\ UNCHANGED <<platform, batchVars, visited, pageVars, mode, multiVars,
                   clickSt, evSt, handle, dlErrors>>

\* MultiPlatform.init asking for every requested platform
MultiInitAll ==
    /\ pc = "m_init"
    /\ \/ /\ ~hasSpecifiedPlatforms(capText, platform, TRUE)
          /\ Log("warn", extIdx)
          /\ pc' = "pkg_end"
          /\ outcome' = "SKIPPED"
          /\ UNCHANGED <<err, ctx>>
       \/ /\ hasSpecifiedPlatforms(capText, platform, TRUE)
          /\ ctx' = "enum"
          /\ pc' = "ed_check"
          /\ Log("ensure", 0)
          /\ UNCHANGED endVars
       \/ /\ Throw("textContent")
          /\ UNCHANGED <<ctx, events>>
    /\ UNCHANGED <<platform, batchVars, visited, pageVars, mode, tasks,
                   taskIdx, taskProgress, cdVars, dlErrors>>

\* MultiPlatform.init: the ANY check; undefined is returned on a mismatch
MultiInit ==
    /\ pc = "m_init"
    /\ \/ /\ ~hasSpecifiedPlatforms(capText, platform, FALSE)
          /\ Log("warn", extIdx)
          /\ pc' = "pkg_end"
          /\ outcome' = "SKIPPED"
          /\ UNCHANGED <<err, ctx>>
       \/ /\ hasSpecifiedPlatforms(capText, platform, FALSE)
          /\ ctx' = "enum"
          /\ pc' = "ed_check"
          /\ Log("ensure", 0)
          /\ UNCHANGED endVars
       \/ /\ Throw("textContent")
          /\ UNCHANGED <<ctx, events>>
    /\ UNCHANGED <<platform, batchVars, visited, pageVars, mode, tasks,
                   taskIdx, taskProgress, cdVars, dlErrors>>

\* ------------------------------------- MultiPlatform.#ensureDropdownExists
\* where #ensureDropdownExists returns to
EnsureReturn == pc' = IF ctx = "enum" THEN "enum" ELSE "run_click"

\* #isDropdownExists: the bounded wait as a boolean probe
isDropdownExists == dropdown

\* an #ensureDropdownExists that clicks without looking
EnsureCheckAlwaysClick ==
    /\ pc = "ed_check"
    /\ pc' = "ed_click"
    /\ UNCHANGED <<platform, batchVars, visited, pageVars, mode, multiVars,
                   cdVars, endVars, dlErrors, events>>

\* if (!(await this.#isDropdownExists()))
EnsureCheck ==
    /\ pc = "ed_check"
    /\ IF isDropdownExists THEN EnsureReturn ELSE pc' = "ed_click"
    /\ UNCHANGED <<platform, batchVars, visited, pageVars, mode, multiVars,
                   cdVars, endVars, dlErrors, events>>

\* locator(DL_BTN_SELECTOR).click(): the page opens the dropdown or does not
EnsureClick ==
    /\ pc = "ed_click"
    /\ \/ /\ Log("expand_click", -1)
          /\ dropdown' \in (IF icons # <<>> THEN BOOLEAN ELSE {FALSE})
          /\ pc' = "ed_wait"
          /\ UNCHANGED endVars
       \/ /\ Throw("click")
          /\ UNCHANGED <<dropdown, events>>
    /\ UNCHANGED <<platform, batchVars, visited, chevrons, capText, icons,
                   mode, multiVars, cdVars, dlErrors>>

\* a wait whose timeout is swallowed, as in #isDropdownExists
EnsureWaitSwallowed ==
    /\ pc = "ed_wait"
    /\ dropdown' \in (IF dropdown THEN BOOLEAN ELSE {FALSE})
    /\ pc' = "ed_assert"
    /\ UNCHANGED <<platform, batchVars, visited, chevrons, capText, icons,
                   mode, multiVars, cdVars, endVars, dlErrors, events>>

\* .then(() => page.waitForSelector(DL_PLATFORM_SELECTOR)): throws on timeout;
\* entries that were rendered may be gone again when the next probe runs
EnsureWait ==
    /\ pc = "ed_wait"
    /\ \/ /\ dropdown
          /\ dropdown' \in BOOLEAN
          /\ pc' = "ed_assert"
          /\ UNCHANGED endVars
       \/ /\ ~dropdown
          /\ Throw("waitForSelector")
          /\ UNCHANGED dropdown
    /\ UNCHANGED <<platform, batchVars, visited, chevrons, capText, icons,
                   mode, multiVars, cdVars, dlErrors, events>>

\* assert(await this.#isDropdownExists())
EnsureAssert ==
    /\ pc = "ed_assert"
    /\ \/ /\ isDropdownExists
          /\ EnsureReturn
          /\ UNCHANGED endVars
       \/ /\ ~isDropdownExists
          /\ Throw("assert")
    /\ UNCHANGED <<platform, batchVars, visited, pageVars, mode, multiVars,
                   cdVars, dlErrors, events>>

\* ------------------------------------------------ MultiPlatform.init / run
\* the entries a locator finds: the dropdown's icons while it is rendered
VisibleIcons == IF dropdown THEN icons ELSE <<>>

\* #computePlatformTaskList after the dropdown is ensured, progress bar create
Enumerate ==
    /\ pc = "enum"
    /\ \/ /\ tasks' = computePlatformTaskList(NameTexts(VisibleIcons), platform)
          /\ taskIdx' = 1
          /\ taskProgress' = 0
          /\ pc' = "run_loop"
          /\ Log("enumerate", Len(NameTexts(VisibleIcons)))
          /\ UNCHANGED endVars
       \/ /\ Throw("textContent")
          /\ UNCHANGED <<tasks, taskIdx, taskProgress, events>>
    /\ UNCHANGED <<platform, batchVars, visited, pageVars, mode, ctx, cdVars,
                   dlErrors>>

\* a loop that opens the dropdown for the first task only
RunLoopNoRecheck ==
    /\ pc = "run_loop"
    /\ IF taskIdx <= Len(tasks)
       THEN /\ ctx' = "run"
            /\ IF taskIdx = 1
               THEN /\ pc' = "ed_check"
                    /\ events' = events \o <<Ev("task", taskIdx),
                                             Ev("ensure", taskIdx)>>
               ELSE /\ pc' = "run_click"
                    /\ Log("task", taskIdx)
            /\ UNCHANGED outcome
       ELSE /\ pc' = "pkg_end"
            /\ outcome' = "DONE"
            /\ UNCHANGED <<ctx, events>>
    /\ UNCHANGED <<platform, batchVars, visited, pageVars, mode, tasks,
                   taskIdx, taskProgress, cdVars, err, dlErrors>>

\* for (const task of this.#platformTaskList): the head of the loop, and
\* progressBar.stop after it
RunLoop ==
    /\ pc = "run_loop"
    /\ IF taskIdx <= Len(tasks)
       THEN /\ ctx' = "run"
            /\ pc' = "ed_check"
            /\ events' = events \o <<Ev("task", taskIdx), Ev("ensure", taskIdx)>>
            /\ UNCHANGED outcome
       ELSE /\ pc' = "pkg_end"
            /\ outcome' = "DONE"
            /\ UNCHANGED <<ctx, events>>
    /\ UNCHANGED <<platform, batchVars, visited, pageVars, mode, tasks,
                   taskIdx, taskProgress, cdVars, err, dlErrors>>

\* btn = allPlatformBtns.nth(task.selectorIdx); _clickAndDl(task.extName, ...)
RunClick ==
    /\ pc = "run_click"
    /\ dlName' = tasks[taskIdx].extName
    /\ target' = tasks[taskIdx].selectorIdx
    /\ pc' = "cd_start"
    /\ UNCHANGED <<platform, batchVars, visited, pageVars, mode, multiVars,
                   clickSt, evSt, handle, endVars, dlErrors, events>>

\* ------------------------------------------------------------ _clickAndDl
\* the element the locator resolves to exists on the page
TargetExists == target = -1 \/ (dropdown /\ target < Len(icons))

\* the click issued before the wait for the download event is registered
CdStartClickFirst ==
    /\ pc = "cd_start"
    /\ evSt' = "pending"
    /\ clickSt' = "pending"
    /\ handle' = "none"
    /\ pc' = "cd_join"
    /\ events' = events \o <<Ev("cd", target), Ev("click", target),
                             Ev("listen", target)>>
    /\ UNCHANGED <<platform, batchVars, visited, pageVars, mode, multiVars,
                   dlName, target, endVars, dlErrors>>

\* Promise.all([page.waitForEvent("download"), locator.click(...)]): both
\* calls are made, in this order, before anything is awaited
CdStart ==
    /\ pc = "cd_start"
    /\ evSt' = "pending"
    /\ clickSt' = "pending"
    /\ handle' = "none"
    /\ pc' = "cd_join"
    /\ events' = events \o <<Ev("cd", target), Ev("listen", target),
                             Ev("click", target)>>
    /\ UNCHANGED <<platform, batchVars, visited, pageVars, mode, multiVars,
                   dlName, target, endVars, dlErrors>>

\* the click promise resolves; a click on an entry may close the dropdown
CdClickResolves ==
    /\ pc = "cd_join"
    /\ clickSt = "pending"
    /\ evSt # "fail"
    /\ TargetExists
    /\ clickSt' = "ok"
    /\ dropdown' \in (IF target = -1 THEN {dropdown} ELSE BOOLEAN)
    /\ UNCHANGED <<platform, batchVars, visited, chevrons, capText, icons, pc,
                   mode, multiVars, dlName, target, evSt, handle, endVars,
                   dlErrors, events>>

\* the click promise rejects (timeout, element gone)
CdClickFails ==
    /\ pc = "cd_join"
    /\ clickSt = "pending"
    /\ evSt # "fail"
    /\ clickSt' = "fail"
    /\ UNCHANGED <<platform, batchVars, visited, pageVars, pc, mode,
                   multiVars, dlName, target, evSt, handle, endVars, dlErrors,
                   events>>

\* the page's download event fires: waitForEvent resolves with the Download
CdEventFires ==
    /\ pc = "cd_join"
    /\ evSt = "pending"
    /\ clickSt # "fail"
    /\ TargetExists \/ clickSt = "ok"
    /\ evSt' = "ok"
    /\ handle' = "open"
    /\ UNCHANGED <<platform, batchVars, visited, pageVars, pc, mode,
                   multiVars, dlName, target, clickSt, endVars, dlErrors,
                   events>>

\* waitForEvent rejects (its timeout passes, the page closes)
CdEventFails ==
    /\ pc = "cd_join"
    /\ evSt = "pending"
    /\ clickSt # "fail"
    /\ evSt' = "fail"
    /\ UNCHANGED <<platform, batchVars, visited, pageVars, pc, mode,
                   multiVars, dlName, target, clickSt, handle, endVars,
                   dlErrors, events>>

\* a race: go on as soon as the click has resolved
JoinRace(click, ev) == click = "ok"

\* Promise.all is fulfilled when both promises are: .then((x) => x[0])
JoinReady(click, ev) == click = "ok" /\ ev = "ok"

CdJoin ==
    /\ pc = "cd_join"
    /\ JoinReady(clickSt, evSt)
    /\ pc' = "cd_save"
    /\ Log("joined", target)
    /\ UNCHANGED <<platform, batchVars, visited, pageVars, mode, multiVars,
                   cdVars, endVars, dlErrors>>

\* a catch that logs and tries the download again
CdCatchRetry ==
    /\ pc = "cd_join"
    /\ clickSt = "fail" \/ evSt = "fail"
    /\ dlErrors' = Append(dlErrors, dlName)
    /\ pc' = "cd_start"
    /\ UNCHANGED <<platform, batchVars, visited, pageVars, mode, multiVars,
                   cdVars, endVars, events>>

\* Promise.all is rejected by the first rejection: .catch logs and re-throws
CdCatch ==
    /\ pc = "cd_join"
    /\ clickSt = "fail" \/ evSt = "fail"
    /\ dlErrors' = Append(dlErrors, dlName)
    /\ Throw(IF clickSt = "fail" THEN "click" ELSE "download")
    /\ UNCHANGED <<platform, batchVars, visited, pageVars, mode, multiVars,
                   cdVars, events>>

\* the step that follows a saveAs that rejected
AfterSaveFailed == Throw("saveAs") /\ Log("saveAs", target)

\* saveAs started but not awaited: the caller goes on at once
CdSaveDetached ==
    /\ pc = "cd_save"
    /\ \/ /\ Log("saveAs", target)
          /\ IF mode = "single"
             THEN /\ pc' = "pkg_end"
                  /\ outcome' = "DONE"
                  /\ UNCHANGED <<taskIdx, taskProgress, err>>
             ELSE /\ taskProgress' = taskProgress + 1
                  /\ taskIdx' = taskIdx + 1
                  /\ pc' = "run_loop"
                  /\ UNCHANGED endVars
       \/ /\ AfterSaveFailed
          /\ UNCHANGED <<taskIdx, taskProgress>>
    /\ UNCHANGED <<platform, batchVars, visited, pageVars, mode, ctx, tasks,
                   cdVars, dlErrors>>

\* savePath = path.join(...); await downloadResp.saveAs(savePath)
CdSave ==
    /\ pc = "cd_save"
    /\ \/ /\ pc' = "cd_delete"
          /\ events' = events \o <<Ev("saveAs", target), Ev("saved", target)>>
          /\ UNCHANGED endVars
       \/ AfterSaveFailed
    /\ UNCHANGED <<platform, batchVars, visited, pageVars, mode, multiVars,
                   cdVars, dlErrors>>

\* await downloadResp.delete(), then back in the caller: SinglePlatform.run
\* returns; MultiPlatform.run increments its bar and takes the next task
CdDelete ==
    /\ pc = "cd_delete"
    /\ \/ /\ handle' = "deleted"
          /\ IF mode = "single"
             THEN /\ pc' = "pkg_end"
                  /\ outcome' = "DONE"
                  /\ Log("delete", target)
                  /\ UNCHANGED <<taskIdx, taskProgress, err>>
             ELSE /\ taskProgress' = taskProgress + 1
                  /\ taskIdx' = taskIdx + 1
                  /\ pc' = "run_loop"
                  /\ events' = events \o <<Ev("delete", target),
                                           Ev("progress", taskIdx)>>
                  /\ UNCHANGED endVars
       \/ /\ Throw("delete")
          /\ Log("delete", target)
          /\ UNCHANGED <<handle, taskIdx, taskProgress>>
    /\ UNCHANGED <<platform, batchVars, visited, pageVars, mode, ctx, tasks,
                   dlName, target, clickSt, evSt, dlErrors>>

\* -------------------------------------------------------- specification
Next ==
    \/ LoopNext \/ PkgReturn \/ PkgCatch \/ LoopEnd
    \/ NavGoto \/ NavWait \/ Probe \/ SingleRun \/ MultiInit
    \/ EnsureCheck \/ EnsureClick \/ EnsureWait \/ EnsureAssert
    \/ Enumerate \/ RunLoop \/ RunClick
    \/ CdStart \/ CdClickResolves \/ CdClickFails \/ CdEventFires
    \/ CdEventFails \/ CdJoin \/ CdCatch \/ CdSave \/ CdDelete

Spec == Init /\ [][Next]_vars

\* ------------------------------------------- the orchestrator's state (4.5)
EnsurePcs == {"ed_check", "ed_click", "ed_wait", "ed_assert"}
CdPcs == {"cd_start", "cd_join", "cd_save", "cd_delete"}
Terminals == {"DONE", "SKIPPED", "FAILED"}

\* the state of the per-package state machine the code is in
State ==
    IF outcome # "none" THEN outcome
    ELSE IF pc = "loop" THEN "IDLE"
    ELSE IF pc \in {"nav_goto", "nav_wait"} THEN "NAVIGATING"
    ELSE IF pc \in {"probe", "s_run", "m_init"} THEN "PROBING"
    ELSE IF mode = "single" THEN "SINGLE_DOWNLOAD"
    ELSE IF pc = "enum" \/ (pc \in EnsurePcs /\ ctx = "enum")
         THEN "MULTI_ENUMERATE"
    ELSE IF pc = "run_loop" /\ taskIdx = 1 /\ tasks = <<>>
         THEN "MULTI_ENUMERATE"
    ELSE "MULTI_DOWNLOADING"

\* ------------------------------------------------- reading the event log
Count(e) == Cardinality({i \in 1..Len(events) : events[i].e = e})

CountEv(e, n) == Cardinality({i \in 1..Len(events) : events[i] = Ev(e, n)})

\* the numbers of the events named e, in order
Nums(e) ==
    LET sel == SelectSeq(events, LAMBDA x : x.e = e)
    IN  [i \in 1..Len(sel) |-> sel[i].n]

\* index of the last event named e, 0 when there is none
LastIdx(e) ==
    LET idx == {i \in 1..Len(events) : events[i].e = e}
    IN  IF idx = {} THEN 0 ELSE CHOOSE i \in idx : \A j \in idx : j <= i

\* number of events named e since the current call of _clickAndDl began
CountSinceCd(e) ==
    LET last == LastIdx("cd")
    IN  Cardinality({i \in (last + 1)..Len(events) : events[i].e = e})

\* a call of _clickAndDl was made and is over (returned or threw)
CdOver == LastIdx("cd") > 0 /\ pc \notin CdPcs

\* positions (0-based) of the name entries whose lower-cased text is exactly
\* a requested platform, ascending
RECURSIVE MatchingFrom(_, _)
MatchingFrom(names, i) ==
    IF i >= Len(names) THEN <<>>
    ELSE IF names[i + 1] # undefined
            /\ \E j \in 1..Len(platform) : toLowerCase(names[i + 1]) = platform[j]
         THEN <<i>> \o MatchingFrom(names, i + 1)
         ELSE MatchingFrom(names, i + 1)

MatchingPositions == MatchingFrom(NameTexts(icons), 0)

FairSpec == Spec /\ WF_vars(Next)

\* ------------------------------------------------------------------ claims
AllowedTransitions ==
    {<<"IDLE", "NAVIGATING">>, <<"NAVIGATING", "PROBING">>,
     <<"PROBING", "SINGLE_DOWNLOAD">>, <<"PROBING", "MULTI_ENUMERATE">>,
     <<"MULTI_ENUMERATE", "MULTI_DOWNLOADING">>,
     <<"SINGLE_DOWNLOAD", "DONE">>, <<"MULTI_DOWNLOADING", "DONE">>,
     <<"PROBING", "SKIPPED">>, <<"MULTI_ENUMERATE", "SKIPPED">>,
     <<"DONE", "NAVIGATING">>, <<"SKIPPED", "NAVIGATING">>}

C1_Step ==
    \/ State' = State
    \/ <<State, State'>> \in AllowedTransitions
    \/ /\ State \notin Terminals \cup {"IDLE"}
       /\ State' = "FAILED"
       /\ err' # "none"

\* C1: a package run only takes the transitions NAVIGATING -> PROBING ->
\* SINGLE_DOWNLOAD or MULTI_ENUMERATE -> MULTI_DOWNLOADING -> DONE, with
\* SKIPPED entered from PROBING or MULTI_ENUMERATE and FAILED from any
\* non-terminal state on an error, and every run that navigates reaches a
\* terminal state.
C1_Claim ==
    /\ [][C1_Step]_vars
    /\ (State = "NAVIGATING") ~> (State \in Terminals)

\* C2: saveAs is called only after both the click and the download event
\* have resolved; when either fails, the label is logged, the error leaves
\* the package as FAILED and saveAs is not called in that invocation.
C2_JoinBeforeSave ==
    /\ pc \in {"cd_save", "cd_delete"} => clickSt = "ok" /\ evSt = "ok"
    /\ (clickSt # "ok" \/ evSt # "ok") => CountSinceCd("saveAs") = 0
    /\ (clickSt = "fail" \/ evSt = "fail") =>
           /\ pc \in {"cd_join", "pkg_end"}
           /\ pc = "pkg_end" =>
                  /\ outcome = "FAILED"
                  /\ err \in {"click", "download"}
                  /\ dlErrors = <<dlName>>

C2_Witness ==
    /\ outcome = "FAILED"
    /\ err = "download"
    /\ clickSt = "ok"
    /\ evSt = "fail"
    /\ dlErrors = <<dlName>>

\* C3: once _clickAndDl holds a download handle, delete has been called on
\* it when the call is over, whether it returned or threw.
C3_Claim ==
    (CdOver /\ CountSinceCd("joined") > 0) => CountSinceCd("delete") > 0

\* the package failed in #ensureDropdownExists after the expansion click
EnsureFailed ==
    /\ mode = "multi"
    /\ outcome = "FAILED"
    /\ err \in {"waitForSelector", "assert"}

\* C4 as claimed: when the entries are not present after the expansion
\* click, the error is the assertion error and no file is saved.
C4_Claim == EnsureFailed => (err = "assert" /\ Count("saved") = 0)

C4_Step ==
    (pc \in {"ed_wait", "ed_assert"} /\ ~dropdown) =>
        /\ outcome' = "FAILED"
        /\ err' = (IF pc = "ed_wait" THEN "waitForSelector" ELSE "assert")
        /\ events' = events
        /\ Count("saved") = taskIdx - 1
        /\ ctx = "enum" => Count("saved") = 0

\* C4 as amended: when the entries are not present after the expansion
\* click, #ensureDropdownExists throws (the timeout of the wait that follows
\* the click, or the assertion error when the entries were seen by that wait
\* and are gone at the probe), the package is FAILED, and no file is saved
\* beyond those of the tasks already completed (none during enumeration).
C4_Amended == [][C4_Step]_vars /\ [](EnsureFailed => ~dropdown)

C4_Witness ==
    /\ EnsureFailed
    /\ err = "waitForSelector"
    /\ Count("expand_click") > 0
    /\ Count("saved") = 0

\* C5: a multi-build package that passes the ANY check and whose task list
\* is empty ends SKIPPED with a warning, no entry clicked, no file saved.
C5_Claim ==
    (mode = "multi" /\ Count("enumerate") > 0 /\ tasks = <<>>
        /\ outcome \in Terminals /\ err = "none") =>
        /\ outcome = "SKIPPED"
        /\ Count("warn") > 0
        /\ Count("cd") = 0
        /\ Count("saved") = 0

C6_Step ==
    /\ (pc = "pkg_end" /\ outcome = "FAILED" /\ batch = "running") =>
           /\ batch' = "aborted"
           /\ extErrors' = Append(extErrors, extIdx)
           /\ extProgress' = extProgress
           /\ visited' = visited
           /\ events' = events
    /\ batch = "aborted" => UNCHANGED vars

C6_Inv ==
    batch = "aborted" =>
        /\ extErrors = <<extIdx>>
        /\ extProgress = extIdx - 1
        /\ visited = [i \in 1..extIdx |-> i]
        /\ outcome = "FAILED"

\* C6: when the download of a package fails, the top-level catch logs its
\* identifier and re-throws: the run ends, no later package is navigated to
\* and the failed package does not increment the extensions progress.
C6_AbortOnFirstFailure == [][C6_Step]_vars /\ []C6_Inv

C6_Witness ==
    /\ batch = "aborted"
    /\ extIdx < MaxExts
    /\ visited = <<1>>

\* C7: each task is attempted at most once and yields at most one file: at
\* most one _clickAndDl per task, nothing is retried, and the saveAs calls
\* of a package never exceed its tasks (1 for a single-build package).
C7_AtMostOnce ==
    LET n == IF mode = "multi" THEN Len(tasks) ELSE 1
    IN  /\ Count("cd") <= n
        /\ Count("saveAs") <= Count("cd")
        /\ Count("saveAs") <= n
        /\ Count("saved") <= Count("saveAs")
        /\ Count("delete") <= Count("saved")
        /\ Count("goto") <= 1
        /\ Count("expand_click") <= Count("ensure")
        /\ mode = "multi" =>
               /\ Count("cd") <= Count("task")
               /\ \A k \in 1..Len(tasks) :
                      /\ CountEv("task", k) <= 1
                      /\ CountEv("ensure", k) <= 1
                      /\ CountEv("cd", tasks[k].selectorIdx) <= 1

C7_Witness ==
    /\ mode = "multi"
    /\ Len(tasks) = 2
    /\ outcome = "DONE"
    /\ Count("saved") = 2
    /\ Count("cd") = 2

\* index of the last event named e before position i, 0 when there is none
LastBefore(e, i) ==
    LET idx == {j \in 1..(i - 1) : events[j].e = e}
    IN  IF idx = {} THEN 0 ELSE CHOOSE j \in idx : \A m \in idx : m <= j

\* the call of _clickAndDl logged at position i follows the dropdown check of
\* the task at hand, with nothing but the expansion click in between, and
\* aims at that task's position
CdFollowsEnsure(i) ==
    LET j == LastBefore("ensure", i)
        t == LastBefore("task", i)
    IN  /\ j > 0
        /\ t > 0
        /\ j = t + 1
        /\ events[j].n = events[t].n
        /\ events[t].n \in 1..Len(tasks)
        /\ events[i].n = tasks[events[t].n].selectorIdx
        /\ \A m \in (j + 1)..(i - 1) : events[m].e = "expand_click"

\* the progress increment logged at position i follows the save of its task
ProgressFollowsSave(i) ==
    LET t == LastBefore("task", i)
    IN  /\ t > 0
        /\ events[t].n = events[i].n
        /\ events[i - 1].e = "delete"
        /\ \E m \in (t + 1)..(i - 1) :
               events[m] = Ev("saved", tasks[events[i].n].selectorIdx)

\* C8: run() takes the tasks in list order; before each task's _clickAndDl
\* the dropdown is checked again by #ensureDropdownExists and is open when
\* the click is issued; the click aims at the task's selectorIdx; the
\* platforms progress advances only after the task's file is saved; DONE is
\* reached only after the last task.
C8_TasksInOrder ==
    mode = "multi" =>
        /\ Nums("task") = [i \in 1..Count("task") |-> i]
        /\ \A i \in 1..Len(events) :
               /\ events[i].e = "cd" => CdFollowsEnsure(i)
               /\ events[i].e = "progress" => ProgressFollowsSave(i)
        /\ pc = "cd_start" => dropdown
        /\ taskProgress = Count("progress")
        /\ taskProgress = taskIdx - 1
        /\ outcome = "DONE" =>
               /\ taskIdx = Len(tasks) + 1
               /\ Count("task") = Len(tasks)
               /\ taskProgress = Len(tasks)

C8_Witness ==
    /\ mode = "multi"
    /\ outcome = "DONE"
    /\ Len(tasks) = 2
    /\ Count("expand_click") = 2
    /\ CountEv("ensure", 2) = 1
    /\ taskProgress = 2

\* C9 as claimed: for a multi-build package whose collaborator calls all
\* succeed, the files saved are those of the entries whose lower-cased name
\* is exactly a requested platform, one each, in DOM order.
C9_Claim ==
    (mode = "multi" /\ outcome \in Terminals /\ err = "none") =>
        Nums("saved") = MatchingPositions

\* C9 as amended: the same for a multi-build package that also passes the
\* ANY-policy capability check; the run then ends in DONE.
C9_Amended ==
    (mode = "multi" /\ outcome \in Terminals /\ err = "none"
        /\ hasSpecifiedPlatforms(capText, platform, FALSE)) =>
        /\ Nums("saved") = MatchingPositions
        /\ Len(tasks) = Len(MatchingPositions)
        /\ \A k \in 1..Len(tasks) :
               tasks[k].selectorIdx = MatchingPositions[k]
        /\ outcome = "DONE"

C9_Witness ==
    /\ mode = "multi"
    /\ outcome = "DONE"
    /\ NameTexts(icons) = <<sWeb, sLinux>>
    /\ platform = <<toLowerCase(sLinux)>>
    /\ tasks = <<PlatformTask(1, toLowerCase(sLinux))>>
    /\ Nums("saved") = <<1>>

\* C10: a single-build package whose capability text satisfies every
\* requested platform and whose calls all succeed makes exactly one
\* _clickAndDl, on DL_BTN_SELECTOR, saves exactly one file and ends DONE.
C10_SingleDownload ==
    (mode = "single" /\ outcome \in Terminals /\ err = "none"
        /\ hasSpecifiedPlatforms(capText, platform, TRUE)) =>
        /\ outcome = "DONE"
        /\ Nums("cd") = <<-1>>
        /\ Nums("saved") = <<-1>>
        /\ Count("saveAs") = 1
        /\ Count("expand_click") = 0
        /\ dlName = sDash

C10_Witness ==
    /\ mode = "single"
    /\ outcome = "DONE"
    /\ chevrons = 2
    /\ Len(platform) = 2
    /\ platform[1] # platform[2]
    /\ Count("saved") = 1
\* the capability check of the branch taken: ALL for single, ANY for multi
CapabilityOk == hasSpecifiedPlatforms(capText, platform, mode = "single")

C11_Inv ==
    /\ outcome = "SKIPPED" =>
           /\ mode \in {"single", "multi"}
           /\ ~CapabilityOk
           /\ events = <<Ev("goto", visited[Len(visited)]),
                          Ev("warn", visited[Len(visited)])>>
           /\ err = "none"
           /\ dlErrors = <<>>
           /\ extErrors = <<>>
           /\ batch # "aborted"
           /\ ~dropdown
    /\ (mode \in {"single", "multi"} /\ outcome \in Terminals /\ err = "none"
           /\ ~CapabilityOk) => outcome = "SKIPPED"

C11_Step ==
    (pc = "pkg_end" /\ outcome = "SKIPPED") =>
        /\ pc' = "loop"
        /\ extIdx' = extIdx + 1
        /\ extProgress' = extProgress + 1
        /\ batch' = "running"
        /\ extErrors' = extErrors

\* C11: when the capability check of PROBING fails (ALL for a single-build
\* page, ANY for a multi-build page) the package ends SKIPPED: one warning,
\* no click, no dropdown check or enumeration, no file saved, no error, and
\* the loop goes on to the next extension.
C11_SkipOnMismatch == []C11_Inv /\ [][C11_Step]_vars

\* a multi-build page that offers entries but advertises another platform was
\* skipped and the loop is at the next extension
C11_Witness ==
    /\ outcome = "SKIPPED"
    /\ mode = "multi"
    /\ capText = sMacCap
    /\ icons # <<>>
    /\ Count("warn") = 1
    /\ pc = "loop"
    /\ extIdx = 2
    /\ extProgress = 1
    /\ batch = "running"

C12_Step ==
    (pc = "ed_check" /\ dropdown) =>
        /\ events' = events
        /\ dropdown'
        /\ pc' = (IF ctx = "enum" THEN "enum" ELSE "run_click")
        /\ outcome' = "none"

\* the check of the first task follows the check of the enumeration with no
\* interaction in between: it finds the dropdown open and clicks nothing
C12_Inv ==
    (mode = "multi" /\ taskIdx = 1) =>
        LET i == LastIdx("ensure")
        IN  (i > 0 /\ events[i].n = 1) =>
                \A j \in (i + 1)..Len(events) : events[j].e # "expand_click"

\* C12: #ensureDropdownExists called while the entries are visible clicks
\* nothing and leaves the dropdown open, so a second call right after a
\* first one adds no click.
C12_NoClickWhenOpen == [][C12_Step]_vars /\ []C12_Inv

C12_Witness ==
    /\ mode = "multi"
    /\ pc = "run_click"
    /\ taskIdx = 1
    /\ Count("ensure") = 2
    /\ Count("expand_click") = 1
    /\ dropdown
\* the entry at 0-based position i of the name list is a requested platform
EntryRequested(names, i) ==
    /\ names[i + 1] # undefined
    /\ \E j \in 1..Len(platform) : toLowerCase(names[i + 1]) = platform[j]

\* C13: #computePlatformTaskList returns the tasks in strictly ascending
\* position; the entry at position i is in the list iff its lower-cased
\* text is exactly a requested platform (containing one is not enough, an
\* entry without text is left out), and the task carries that text.
C13_EnumerateExact ==
    (mode = "multi" /\ Count("enumerate") > 0) =>
        LET names == NameTexts(icons)
        IN  /\ \A k \in 1..(Len(tasks) - 1) :
                   tasks[k].selectorIdx < tasks[k + 1].selectorIdx
            /\ \A k \in 1..Len(tasks) :
                   /\ tasks[k].selectorIdx \in 0..(Len(names) - 1)
                   /\ tasks[k].extName
                          = toLowerCase(names[tasks[k].selectorIdx + 1])
            /\ \A i \in 0..(Len(names) - 1) :
                   (\E k \in 1..Len(tasks) : tasks[k].selectorIdx = i)
                       <=> EntryRequested(names, i)

C13_Witness ==
    /\ mode = "multi"
    /\ Count("enumerate") = 1
    /\ NameTexts(icons) = <<sWebUI, sWeb>>
    /\ platform = <<toLowerCase(sLinux), toLowerCase(sWeb)>>
    /\ tasks = <<PlatformTask(1, toLowerCase(sWeb))>>
\* the lower-cased capability text of the page
LowerCap == toLowerCase(capText)

HasUniversal == capText # undefined /\ StrIncludes(LowerCap, UNIVERSAL)

EveryAdvertised ==
    \A j \in 1..Len(platform) : StrIncludes(LowerCap, platform[j])

SomeAdvertised ==
    \E j \in 1..Len(platform) : StrIncludes(LowerCap, platform[j])

\* C14: a capability text whose lower-cased form contains "universal"
\* satisfies every requested platform list under both policies, so such a
\* page is never skipped.
C14_Universal ==
    HasUniversal =>
        /\ hasSpecifiedPlatforms(capText, platform, TRUE)
        /\ hasSpecifiedPlatforms(capText, platform, FALSE)
        /\ outcome # "SKIPPED"

C14_Witness ==
    /\ capText = sUniversalCap
    /\ ~EveryAdvertised
    /\ ~SomeAdvertised
    /\ mode = "single"
    /\ outcome = "DONE"

\* C15: the check fails closed: it is false under both policies when the
\* capability text is absent, and when the lower-cased text contains neither
\* a requested platform nor "universal"; such a page never gets past it.
C15_FailClosed ==
    (capText = undefined \/ (~HasUniversal /\ ~SomeAdvertised)) =>
        /\ ~hasSpecifiedPlatforms(capText, platform, TRUE)
        /\ ~hasSpecifiedPlatforms(capText, platform, FALSE)
        /\ outcome # "DONE"
        /\ \A i \in 1..Len(events) : events[i].e \in {"goto", "warn"}

C15_Witness ==
    /\ capText = undefined
    /\ mode = "single"
    /\ outcome = "SKIPPED"
    /\ Count("warn") = 1

\* C16: for a capability text that is present and without "universal", the
\* check with matchAll is true iff every requested platform is a substring
\* of the lower-cased text, and without matchAll iff at least one is; the
\* single-build branch goes by the first, the multi-build branch by the
\* second.
C16_AllAndAny ==
    (capText # undefined /\ ~HasUniversal) =>
        /\ hasSpecifiedPlatforms(capText, platform, TRUE) <=> EveryAdvertised
        /\ hasSpecifiedPlatforms(capText, platform, FALSE) <=> SomeAdvertised
        /\ (mode = "single" /\ outcome \in Terminals /\ err = "none") =>
               (outcome = "DONE" <=> EveryAdvertised)
        /\ (mode = "multi" /\ outcome \in Terminals /\ err = "none") =>
               (outcome = "DONE" <=> SomeAdvertised)

C16_Witness ==
    /\ capText = sWeb
    /\ platform = <<toLowerCase(sLinux), toLowerCase(sWeb)>>
    /\ mode = "multi"
    /\ outcome = "DONE"
    /\ ~EveryAdvertised

\* C17: the multi-build branch is taken iff exactly one chevron is counted;
\* a page with none, or with two, takes the single-build branch and its
\* dropdown is never looked at.
C17_ExactlyOneChevron ==
    /\ hasMultiplePlatforms(chevrons) <=> chevrons = 1
    /\ mode = "multi" => chevrons = 1
    /\ mode = "single" =>
           /\ chevrons \in {0, 2}
           /\ Count("ensure") = 0
           /\ Count("enumerate") = 0
           /\ tasks = <<>>

C17_Witness ==
    /\ chevrons = 2
    /\ mode = "single"
    /\ icons # <<>>
    /\ Nums("cd") = <<-1>>
    /\ outcome = "DONE"
\* C18: the page is used sequentially.  A package is navigated to only when
\* all earlier packages have ended and been counted, a page operation is
\* made only for the one package that has not ended yet, a call of
\* _clickAndDl begins only when every earlier download was saved and its
\* handle released, and at most one download is in flight.
C18_Step ==
    /\ visited' # visited =>
           /\ pc = "nav_goto"
           /\ outcome = "none"
           /\ batch = "running"
           /\ visited = [i \in 1..(extIdx - 1) |-> i]
           /\ extProgress = extIdx - 1
    /\ (events' # events /\ events' # <<>>) =>
           /\ outcome = "none"
           /\ batch = "running"
           /\ visited' = [i \in 1..extIdx |-> i]
           /\ extProgress = extIdx - 1
           /\ extIdx' = extIdx

C18_Inv ==
    LET cd == Count("cd")
        saved == Count("saved")
        released == Count("delete")
    IN  /\ released <= saved
        /\ saved <= cd
        /\ cd <= released + 1
        /\ pc \in {"run_loop", "run_click", "cd_start"} => cd = released
        /\ (handle = "open" /\ pc \in CdPcs) => cd = released + 1
        /\ Count("listen") = cd

C18_Sequential == []C18_Inv /\ [][C18_Step]_vars

C18_Witness ==
    /\ extIdx = 2
    /\ extProgress = 1
    /\ mode = "multi"
    /\ pc = "cd_join"
    /\ handle = "open"
    /\ Count("cd") = 2
    /\ Count("saved") = 1
    /\ Count("delete") = 1

\* C19: in every call of _clickAndDl the wait for the download event is
\* registered before the click is issued: each click comes right after the
\* registration of the listener of the same call, and a download handle is
\* only ever obtained through a listener that was waiting.
C19_ListenBeforeClick ==
    /\ \A i \in 1..Len(events) :
           events[i].e = "click" =>
               /\ i > 2
               /\ events[i - 1] = Ev("listen", events[i].n)
               /\ events[i - 2] = Ev("cd", events[i].n)
    /\ clickSt # "none" => evSt # "none"
    /\ handle = "open" => evSt = "ok"

C19_Witness ==
    /\ pc = "cd_join"
    /\ handle = "open"
    /\ clickSt = "pending"
    /\ mode = "single"
    /\ events = <<Ev("goto", 1), Ev("cd", -1), Ev("listen", -1),
                  Ev("click", -1)>>

\* C20: in the multi-build loop the Download icon that is clicked is the
\* one followed by the name read for the task at enumeration time.
C20_Claim ==
    (mode = "multi" /\ pc \in CdPcs) =>
        /\ target < Len(icons)
        /\ icons[target + 1].span
        /\ icons[target + 1].text # undefined
        /\ toLowerCase(icons[target + 1].text) = dlName
====
